---- MODULE Spec2Model ----
(***************************************************************************)
(* Model of the orchestration core of dteg (dteg.orchestration.scheduler): *)
(* ScheduleConfig, ExecutionRecord and Scheduler, with the tick            *)
(* (Scheduler.run_once), the dependency gate and the in-process run        *)
(* (Scheduler._run_pipeline).                                              *)
(*                                                                         *)
(* Time is an integer number of minutes.  A cron expression is modelled by *)
(* its period in minutes: 1 is "* * * * *", 2 is "*/2 * * * *"; the        *)
(* instants it matches are the multiples of the period.  BadCron is a      *)
(* string croniter rejects.  An optional value (None or a value) is a      *)
(* sequence of length at most one.                                         *)
(***************************************************************************)
EXTENDS Integers, Sequences, FiniteSets, TLC

\* ---- bounds of the model ------------------------------------------------
MaxTime == 1
MaxHistory == 2
MaxRuns == 2
MaxCalls == 1
MaxThreads == 2
MaxStored == 2

\* ---- domains of the inputs ----------------------------------------------
SchedIds == {"s1", "s2"}
\* a pipeline_config is a str, a pathlib.Path or a PipelineConfig object: the
\* type, and the text of the path or the pipeline_id of the object
PathConfig == <<"str", "p1.yaml">>
IdConfig == <<"str", "p2">>
PathObject == <<"Path", "p1.yaml">>
ConfigObject == <<"PipelineConfig", "p1">>
PipelineIds == {"p1", "p2"}
EveryMinute == 1
EveryTwoMinutes == 2
ValidCrons == {EveryMinute, EveryTwoMinutes}
BadCron == 0
DefaultMaxRetries == 3
DefaultRetryDelay == 300
\* max_retries: the default, and 0 (--max-retries 0: no retry)
MaxRetriesValues == {0, DefaultMaxRetries}
Terminal == {"SUCCESS", "FAILED", "CANCELLED"}
\* the threading.Thread objects start_scheduler creates
Threads == 1..MaxThreads
\* an id get_schedule does not know
Nonexistent == "nonexistent"

VARIABLES
  now,                    \* datetime.now()
  objs,                   \* the ScheduleConfig objects, by id
  schedules,              \* Scheduler.schedules: the keys, in insertion order
  files,                  \* schedule_dir: <id>.json -> its content
  records,                \* the ExecutionRecord objects; the index is the id
  running_executions,     \* Scheduler.running_executions: ids of records
  completed_executions,   \* Scheduler.completed_executions: ids of records
  db_executions,          \* the web database's Execution table
  on_execution_complete,  \* whether a completion callback was given
  callback_calls,         \* the records the callback was called with
  pc,                     \* the position of the scheduler's caller
  force,                  \* scheduler_run_once: the option --force
  tick_now,               \* run_once: now
  tick_items,             \* run_once: the rest of list(self.schedules.items())
  fired,                  \* the schedules this run_once has fired
  deferred,               \* the schedules this run_once found due but gated
  caller,                 \* who called _run_pipeline
  run_sched,              \* _run_pipeline: schedule
  run_rec,                \* _run_pipeline: record
  run_success,            \* _run_pipeline: success
  runs,                   \* the number of calls of _run_pipeline so far
  calls,                  \* the number of calls of remove_schedule,
                          \* update_schedule and _run_pipeline from outside
  use_celery,             \* Orchestrator.use_celery
  tasks,                  \* what task_manager.run_pipeline was given
  scheduler_running,      \* Orchestrator.scheduler_running
  scheduler_thread,       \* Orchestrator.scheduler_thread
  threads,                \* the position of every scheduler_loop thread
  result                  \* what the last Orchestrator.run_pipeline returned

vars == <<now, objs, schedules, files, records, running_executions,
          completed_executions, db_executions, on_execution_complete,
          callback_calls, pc, force, tick_now, tick_items, fired, deferred,
          caller,
          run_sched, run_rec, run_success, runs, calls, use_celery, tasks,
          scheduler_running, scheduler_thread, threads, result>>

tickVars == <<force, tick_now, tick_items, fired, deferred>>
runVars == <<caller, run_sched, run_rec, run_success, runs>>
\* the Orchestrator around the Scheduler: what the Scheduler never writes
orchVars == <<on_execution_complete, use_celery, tasks, scheduler_running,
              scheduler_thread, threads>>
execVars == <<records, running_executions, completed_executions,
              db_executions, callback_calls>>

\* ---- helpers ------------------------------------------------------------
EmptyMap == [x \in {} |-> x]

Range(s) == {s[i] : i \in 1..Len(s)}

DictSet(order, k) == IF k \in Range(order) THEN order ELSE Append(order, k)

DictDel(order, k) == SelectSeq(order, LAMBDA x : x # k)

\* ---- Clock / cron -------------------------------------------------------
is_valid(cron) == cron \in ValidCrons

\* croniter(expr, t).get_next(): the first matching instant after t
get_next(cron, t) == ((t \div cron) + 1) * cron

isoformat(t) == <<"iso", t>>

\* datetime.fromisoformat
fromisoformat(x) == x[2]

\* ---- ScheduleConfig -----------------------------------------------------
ScheduleConfig(id, cfg, cron, enabled, deps, max_retries, t) ==
  [ id |-> id, pipeline_config |-> cfg, cron_expression |-> cron,
    enabled |-> enabled, dependencies |-> deps, max_retries |-> max_retries,
    retry_delay |-> DefaultRetryDelay, next_run |-> get_next(cron, t),
    last_run_time |-> <<>>, last_run_status |-> <<>>, next_run_time |-> <<>> ]

update_next_run(s, t) == [s EXCEPT !.next_run = get_next(s.cron_expression, t)]

get_next_run_time(s, t) ==
  IF ~s.enabled THEN <<>> ELSE <<get_next(s.cron_expression, t)>>

\* lines 81-83: str(self.pipeline_config), or the pipeline_id of a
\* PipelineConfig
pipeline_config_str(cfg) == <<"str", cfg[2]>>

to_dict(s) ==
  [ id |-> s.id, pipeline_config |-> pipeline_config_str(s.pipeline_config),
    cron_expression |-> s.cron_expression, enabled |-> s.enabled,
    dependencies |-> s.dependencies, max_retries |-> s.max_retries,
    retry_delay |-> s.retry_delay, next_run |-> isoformat(s.next_run) ]

\* ScheduleConfig.from_dict, called at instant t: the constructor, then the
\* id and the next_run of the file
from_dict(data, t) ==
  [ScheduleConfig(data.id, data.pipeline_config, data.cron_expression,
                  data.enabled, data.dependencies, data.max_retries, t)
     EXCEPT !.retry_delay = data.retry_delay,
            !.next_run = fromisoformat(data.next_run)]

\* the pipeline id _run_pipeline extracts from schedule.pipeline_config
PipelineIdOf(cfg) ==
  IF cfg[1] \in {"str", "Path"} /\ cfg[2] = "p1.yaml" THEN "p1" ELSE cfg[2]

\* ---- ExecutionRecord ----------------------------------------------------
ExecutionRecord(schedule_id, pipeline_id, t) ==
  [ schedule_id |-> schedule_id, pipeline_id |-> pipeline_id,
    start_time |-> t, end_time |-> <<>>, status |-> "RUNNING",
    retry_count |-> 0, error_message |-> <<>>, logs |-> <<>> ]

\* a complete() that forgets end_time
completeNoEndTime(r, success, error_message, t) ==
  [r EXCEPT !.status = IF success THEN "SUCCESS" ELSE "FAILED",
            !.error_message = error_message]

complete(r, success, error_message, t) ==
  [r EXCEPT !.end_time = <<t>>,
            !.status = IF success THEN "SUCCESS" ELSE "FAILED",
            !.error_message = error_message]

retry(r, error_message) ==
  [r EXCEPT !.retry_count = r.retry_count + 1,
            !.status = "RETRYING",
            !.error_message = <<error_message>>]

\* a log that keeps its last line only
LogOverwrite(r, line) == [r EXCEPT !.logs = <<line>>]

LogAppend(r, line) == [r EXCEPT !.logs = Append(r.logs, line)]

\* ---- Scheduler: persistence of the schedules ----------------------------
\* _save_schedules: writes <id>.json for every schedule of the map and
\* leaves every other file of the directory as it is
_save_schedules(order, heap, fs) ==
  [k \in (DOMAIN fs) \cup Range(order) |->
     IF k \in Range(order) THEN to_dict(heap[k]) ELSE fs[k]]

\* the file part of _save_schedule: writes <id>.json of one schedule
WriteScheduleFile(s, fs) ==
  [k \in (DOMAIN fs) \cup {s.id} |-> IF k = s.id THEN to_dict(s) ELSE fs[k]]

\* the one file _load_schedules reads
SchedulesJson == "schedules.json"

\* schedules.json as a file: whether json.load parses it, and the items of
\* the object it holds, in the order of the file
StoreFile(parses, items) == [parses |-> parses, items |-> items]

\* from_dict raises: croniter rejects the cron expression in the constructor
from_dict_raises(data) == ~is_valid(data.cron_expression)

RECURSIVE LoadItems(_, _, _)
\* lines 725-727: for schedule_id, schedule_data in schedules_data.items(),
\* from position i up; the try of line 721 is around the loop, so the first
\* from_dict that raises ends it in the except of line 730
LoadItems(items, i, t) ==
  IF i > Len(items) \/ from_dict_raises(items[i]) THEN <<>>
  ELSE <<from_dict(items[i], t)>> \o LoadItems(items, i + 1, t)

\* the schedules _load_schedules puts into the map, in their order: none if
\* there is no schedules.json (line 717) or json.load raises (line 723)
LoadedList(fs, t) ==
  IF SchedulesJson \notin DOMAIN fs THEN <<>>
  ELSE IF ~fs[SchedulesJson].parses THEN <<>>
       ELSE LoadItems(fs[SchedulesJson].items, 1, t)

\* _load_schedules of a Scheduler constructed at instant t on the directory
\* fs: the schedules loaded, by id
_load_schedules(fs, t) ==
  LET l == LoadedList(fs, t) IN
    [id \in {l[k].id : k \in DOMAIN l} |->
       l[CHOOSE k \in DOMAIN l : l[k].id = id /\ \A j \in DOMAIN l : l[j].id = id => j <= k]]

\* ---- Scheduler: the dependency gate -------------------------------------
RECURSIVE FindSuccess(_, _, _, _)
\* for exec_record in reversed(completed_executions), from position i down
FindSuccess(recs, completed, i, dep_id) ==
  IF i = 0 THEN FALSE
  ELSE IF recs[completed[i]].pipeline_id = dep_id
          /\ recs[completed[i]].status = "SUCCESS"
       THEN TRUE
       ELSE FindSuccess(recs, completed, i - 1, dep_id)

RECURSIVE CheckFromAny(_, _, _, _)
\* a gate that opens as soon as one dependency has succeeded
CheckFromAny(deps, i, recs, completed) ==
  IF i > Len(deps) THEN FALSE
  ELSE IF FindSuccess(recs, completed, Len(completed), deps[i]) THEN TRUE
       ELSE CheckFromAny(deps, i + 1, recs, completed)

RECURSIVE CheckFrom(_, _, _, _)
\* for dep_id in schedule.dependencies, from position i up
CheckFrom(deps, i, recs, completed) ==
  IF i > Len(deps) THEN TRUE
  ELSE IF ~FindSuccess(recs, completed, Len(completed), deps[i]) THEN FALSE
       ELSE CheckFrom(deps, i + 1, recs, completed)

_check_dependencies(s) ==
  IF s.dependencies = <<>> THEN TRUE
  ELSE CheckFrom(s.dependencies, 1, records, completed_executions)

\* ---- initial state: Scheduler.__init__ ----------------------------------
\* the history of earlier processes holds runs of pipeline p1
HistoryEntries == {"p1"} \X {"SUCCESS", "FAILED"}

LoadedHistories == UNION {[1..n -> HistoryEntries] : n \in 0..MaxHistory}

\* _load_history: one record per file of history_dir, written by earlier
\* runs; the i-th of n ended at instant i - n - 1, before this process began
LoadedRecord(h, i) ==
  [ schedule_id |-> "s0", pipeline_id |-> h[i][1],
    start_time |-> i - Len(h) - 1, end_time |-> <<i - Len(h) - 1>>,
    status |-> h[i][2], retry_count |-> 0,
    error_message |-> IF h[i][2] = "FAILED" THEN <<"error">> ELSE <<>>,
    logs |-> <<>> ]

\* no call of Orchestrator.run_pipeline has returned yet
NoResult ==
  [ status |-> "none", execution_id |-> <<>>, task_id |-> <<>>,
    pipeline_id |-> <<>> ]

Init ==
  /\ now = 0
  /\ objs = EmptyMap
  /\ schedules = <<>>
  /\ files = EmptyMap
  /\ \E h \in LoadedHistories :
       /\ records = [i \in 1..Len(h) |-> LoadedRecord(h, i)]
       /\ completed_executions = [i \in 1..Len(h) |-> i]
  /\ running_executions = {}
  /\ db_executions = EmptyMap
  \* Orchestrator.__init__ gives the scheduler its execution_callback
  /\ on_execution_complete = TRUE
  /\ callback_calls = <<>>
  /\ pc = "idle"
  /\ force = FALSE
  /\ tick_now = 0
  /\ tick_items = <<>>
  /\ fired = <<>>
  /\ deferred = <<>>
  /\ caller = "none"
  /\ run_sched = "none"
  /\ run_rec = 0
  /\ run_success = FALSE
  /\ runs = 0
  /\ calls = 0
  \* the Orchestrator of the command line: get_orchestrator(use_celery=False)
  /\ use_celery = FALSE
  /\ tasks = <<>>
  /\ scheduler_running = FALSE
  /\ scheduler_thread = <<>>
  /\ threads = [w \in Threads |-> "none"]
  /\ result = NoResult

\* ---- the clock ----------------------------------------------------------
\* time passes between the operations and while a pipeline runs; the other
\* steps of a run take no time
ClockTick ==
  /\ now < MaxTime
  /\ pc \in {"idle", "run_exec"}
  /\ now' = now + 1
  /\ UNCHANGED <<objs, schedules, files, execVars, orchVars, result, calls,
                 pc, tickVars, runVars>>

\* uuid4 gives a fresh id; the model names the ids in the order of creation
IdBefore(a, b) == a = "s1" /\ b = "s2"

\* ---- Scheduler: add, remove, update -------------------------------------
\* ScheduleConfig(...) followed by Scheduler.add_schedule
add_schedule(id, cfg, cron, enabled, deps, max_retries) ==
  /\ pc = "idle"
  /\ id \notin DOMAIN objs
  /\ \A other \in SchedIds : IdBefore(other, id) => other \in DOMAIN objs
  /\ is_valid(cron)
  \* the ids are uuids: a caller names only ids add_schedule has returned
  /\ \A k \in 1..Len(deps) : deps[k] \in SchedIds => deps[k] \in DOMAIN objs
  /\ objs' = objs @@ (id :> ScheduleConfig(id, cfg, cron, enabled, deps,
                                           max_retries, now))
  /\ schedules' = DictSet(schedules, id)
  /\ files' = _save_schedules(schedules', objs', files)
  /\ UNCHANGED <<now, execVars, orchVars, result, calls, pc, tickVars, runVars>>

remove_schedule(id) ==
  /\ calls < MaxCalls
  /\ calls' = calls + 1
  /\ id \in Range(schedules)
  /\ schedules' = DictDel(schedules, id)
  /\ files' = _save_schedules(schedules', objs, files)
  /\ UNCHANGED <<now, objs, execVars, orchVars, result, pc, tickVars,
                 runVars>>

Optional(S) == {<<>>} \cup {<<x>> : x \in S}

UpdateDeps == {<<>>, <<"p1", "p2">>}

NoArgs ==
  [ enabled |-> <<>>, cron_expression |-> <<>>, dependencies |-> <<>>,
    max_retries |-> <<>> ]

\* the keyword arguments of update_schedule: one attribute at a time
UpdateArgs ==
  {[NoArgs EXCEPT !.enabled = <<b>>] : b \in BOOLEAN}
  \cup {[NoArgs EXCEPT !.cron_expression = <<c>>] : c \in ValidCrons \cup {BadCron}}
  \cup {[NoArgs EXCEPT !.dependencies = <<d>>] : d \in UpdateDeps}
  \cup {[NoArgs EXCEPT !.max_retries = <<m>>] : m \in MaxRetriesValues}

\* the setattr loop of update_schedule
SetAttrs(s, kwargs) ==
  [s EXCEPT
     !.enabled = IF kwargs.enabled = <<>> THEN @ ELSE kwargs.enabled[1],
     !.cron_expression =
        IF kwargs.cron_expression = <<>> THEN @ ELSE kwargs.cron_expression[1],
     !.dependencies =
        IF kwargs.dependencies = <<>> THEN @ ELSE kwargs.dependencies[1],
     !.max_retries =
        IF kwargs.max_retries = <<>> THEN @ ELSE kwargs.max_retries[1]]

update_schedule(id, kwargs) ==
  /\ calls < MaxCalls
  /\ id \in Range(schedules)
  /\ LET s1 == SetAttrs(objs[id], kwargs) IN
       IF kwargs.cron_expression = <<>>
       THEN /\ objs' = [objs EXCEPT ![id] = s1]
            /\ files' = _save_schedules(schedules, objs', files)
       ELSE IF is_valid(s1.cron_expression)
            THEN /\ objs' = [objs EXCEPT ![id] = update_next_run(s1, now)]
                 /\ files' = _save_schedules(schedules, objs', files)
            \* croniter raises in update_next_run: the attributes are set,
            \* nothing is saved, the exception reaches the caller
            ELSE /\ objs' = [objs EXCEPT ![id] = s1]
                 /\ UNCHANGED files
  /\ calls' = calls + 1
  /\ UNCHANGED <<now, schedules, execVars, orchVars, result, pc,
                 tickVars, runVars>>

\* ---- Orchestrator: the dependencies of a schedule ------------------------
\* list.remove: the first occurrence goes
RECURSIVE ListRemove(_, _)
ListRemove(l, x) ==
  IF l = <<>> THEN <<>>
  ELSE IF Head(l) = x THEN Tail(l) ELSE <<Head(l)>> \o ListRemove(Tail(l), x)

\* an add_pipeline_dependency that does not look whether the dependency is
\* listed already
add_pipeline_dependency_unchecked(schedule_id, dependency_id) ==
  /\ schedule_id \in Range(schedules)
  /\ dependency_id \in Range(schedules)
  /\ update_schedule(schedule_id,
        [NoArgs EXCEPT !.dependencies =
           <<Append(objs[schedule_id].dependencies, dependency_id)>>])

\* Orchestrator.add_pipeline_dependency, where it does not return False
\* before the update
add_pipeline_dependency(schedule_id, dependency_id) ==
  /\ schedule_id \in Range(schedules)
  /\ dependency_id \in Range(schedules)
  /\ dependency_id \notin Range(objs[schedule_id].dependencies)
  /\ update_schedule(schedule_id,
        [NoArgs EXCEPT !.dependencies =
           <<Append(objs[schedule_id].dependencies, dependency_id)>>])

\* Orchestrator.remove_pipeline_dependency, where it does not return False
\* before the update
remove_pipeline_dependency(schedule_id, dependency_id) ==
  /\ schedule_id \in Range(schedules)
  /\ dependency_id \in Range(objs[schedule_id].dependencies)
  /\ update_schedule(schedule_id,
        [NoArgs EXCEPT !.dependencies =
           <<ListRemove(objs[schedule_id].dependencies, dependency_id)>>])

\* ---- Scheduler._run_pipeline --------------------------------------------
RECURSIVE AppendLogs(_, _)
AppendLogs(r, lines) ==
  IF lines = <<>> THEN r ELSE AppendLogs(LogAppend(r, Head(lines)), Tail(lines))

\* Path(pipeline_config).exists()
PathExists(cfg) == cfg[1] \in {"str", "Path"} /\ cfg[2] = "p1.yaml"

\* what the run can end in: the ETL returns ("ok"), the ETL raises
\* ("error"), or the web database has no pipeline of that id ("not_found")
\* ("not_found"); Path() of a PipelineConfig object raises TypeError
Outcomes(cfg) ==
  IF cfg[1] = "PipelineConfig" THEN {"error"}
  ELSE IF PathExists(cfg) THEN {"ok", "error"}
       ELSE {"ok", "error", "not_found"}

\* the lines appended to record.logs inside the inner try block
RunLogs(cfg, outcome) ==
  IF PathExists(cfg) \/ cfg[1] = "PipelineConfig"
  THEN IF outcome = "ok" THEN <<"collected", "done">> ELSE <<>>
  ELSE IF outcome = "ok"
       THEN <<"web_id", "db_loaded", "config_loaded", "format", "running",
              "finished", "collected", "done">>
       ELSE IF outcome = "error"
            THEN <<"web_id", "db_loaded", "config_loaded", "format",
                   "running", "run_failed">>
            ELSE <<"web_id", "db_not_found">>

\* lines 384-425: the record is created and put into running_executions
RunBegin(sid, who) ==
  /\ runs < MaxRuns
  /\ runs' = runs + 1
  /\ LET r == ExecutionRecord(sid, PipelineIdOf(objs[sid].pipeline_config), now)
     IN records' = Append(records, AppendLogs(r, <<"start", "start_time">>))
  /\ running_executions' = running_executions \cup {Len(records) + 1}
  /\ run_rec' = Len(records) + 1
  /\ run_sched' = sid
  /\ caller' = who
  /\ run_success' = FALSE
  /\ pc' = "run_exec"

\* a run whose failure sends the record to RETRYING
ExecutedRetrying(r, cfg, outcome, t) ==
  IF outcome = "ok"
  THEN complete(AppendLogs(r, RunLogs(cfg, outcome)), TRUE, <<>>, t)
  ELSE retry(LogAppend(AppendLogs(r, RunLogs(cfg, outcome)), "error"), "error")

\* the record after the inner try/except, lines 428-498
Executed(r, cfg, outcome, t) ==
  IF outcome = "ok"
  THEN complete(AppendLogs(r, RunLogs(cfg, outcome)), TRUE, <<>>, t)
  ELSE complete(LogAppend(AppendLogs(r, RunLogs(cfg, outcome)), "error"),
                FALSE, <<"error">>, t)

\* a run whose failure leaves _run_pipeline as an exception
RunExecuteRaising(outcome) ==
  /\ pc = "run_exec"
  /\ outcome \in Outcomes(objs[run_sched].pipeline_config)
  /\ records' = IF outcome = "ok"
                THEN [records EXCEPT ![run_rec] =
                        Executed(@, objs[run_sched].pipeline_config, outcome, now)]
                ELSE records
  /\ run_success' = (outcome = "ok")
  /\ pc' = IF outcome = "ok" THEN "run_endlog" ELSE "run_returned"
  /\ UNCHANGED <<now, objs, schedules, files, running_executions,
                 completed_executions, db_executions, orchVars, result, calls,
                 callback_calls, tickVars, caller, run_sched, run_rec, runs>>

RunExecute(outcome) ==
  /\ pc = "run_exec"
  /\ outcome \in Outcomes(objs[run_sched].pipeline_config)
  /\ records' = [records EXCEPT ![run_rec] =
                   Executed(@, objs[run_sched].pipeline_config, outcome, now)]
  /\ run_success' = (outcome = "ok")
  /\ pc' = "run_endlog"
  /\ UNCHANGED <<now, objs, schedules, files, running_executions,
                 completed_executions, db_executions, orchVars, result, calls,
                 callback_calls, tickVars, caller, run_sched, run_rec, runs>>

\* line 504: the completion-time line
RunEndLog ==
  /\ pc = "run_endlog"
  /\ records' = [records EXCEPT ![run_rec] = LogAppend(@, "end_time")]
  /\ pc' = "run_save"
  /\ UNCHANGED <<now, objs, schedules, files, running_executions,
                 completed_executions, db_executions, orchVars, result, calls,
                 callback_calls, tickVars, runVars>>

\* the row _save_execution_record writes
DbRow(r, old) ==
  IF old = <<>>
  THEN [ pipeline_id |-> r.pipeline_id, schedule_id |-> r.schedule_id,
         status |-> r.status, started_at |-> r.start_time,
         ended_at |-> r.end_time, error_message |-> r.error_message,
         logs |-> r.logs ]
  ELSE [old[1] EXCEPT !.status = r.status, !.ended_at = r.end_time,
                      !.error_message = r.error_message, !.logs = r.logs]

\* _save_execution_record: the row is written, unless the web database is not
\* importable or the commit fails (both are caught and logged)
_save_execution_record(id, db_ok) ==
  IF db_ok
  THEN (id :> DbRow(records[id],
                    IF id \in DOMAIN db_executions
                    THEN <<db_executions[id]>> ELSE <<>>)) @@ db_executions
  ELSE db_executions

RunSaveRecord(db_ok) ==
  /\ pc = "run_save"
  /\ db_executions' = _save_execution_record(run_rec, db_ok)
  /\ pc' = "run_callback"
  /\ UNCHANGED <<now, objs, schedules, files, records, running_executions,
                 completed_executions, orchVars, result, calls, callback_calls,
                 tickVars, runVars>>

\* lines 510-511; a callback that raises ends _run_pipeline in the outer
\* except, which returns False
RunCallback(raises) ==
  /\ pc = "run_callback"
  /\ IF on_execution_complete
     THEN /\ callback_calls' = Append(callback_calls, run_rec)
          /\ pc' = IF raises THEN "run_returned" ELSE "run_bookkeep"
     ELSE /\ ~raises
          /\ UNCHANGED callback_calls
          /\ pc' = "run_bookkeep"
  /\ UNCHANGED <<now, objs, schedules, files, records, running_executions,
                 completed_executions, db_executions, orchVars, result, calls,
                 tickVars, runVars>>

\* a bookkeeping that advances next_run as well
BookkeepAdvancing(s, success, t) ==
  [s EXCEPT !.last_run_time = <<t>>,
            !.last_run_status = <<IF success THEN "SUCCESS" ELSE "FAILED">>,
            !.next_run_time = get_next_run_time(s, t),
            !.next_run = get_next(s.cron_expression, t)]

\* lines 514-529: the informational attributes of the schedule
Bookkeep(s, success, t) ==
  [s EXCEPT !.last_run_time = <<t>>,
            !.last_run_status = <<IF success THEN "SUCCESS" ELSE "FAILED">>,
            !.next_run_time = get_next_run_time(s, t)]

\* lines 513-534; get_next_run_time raises on a cron expression croniter
\* rejects, and the outer except then returns False
RunBookkeep ==
  /\ pc = "run_bookkeep"
  /\ IF objs[run_sched].enabled /\ ~is_valid(objs[run_sched].cron_expression)
     THEN UNCHANGED <<objs, schedules, files>>
     ELSE /\ objs' = [objs EXCEPT ![run_sched] = Bookkeep(@, run_success, now)]
          \* _save_schedule: the file, then self.schedules[schedule.id]
          /\ files' = WriteScheduleFile(objs'[run_sched], files)
          /\ schedules' = DictSet(schedules, run_sched)
  /\ pc' = "run_returned"
  /\ UNCHANGED <<now, execVars, orchVars, result, calls, tickVars, runVars>>

\* ---- Orchestrator.run_pipeline: the dictionary of a run in-process -----
RECURSIVE LatestRecordOf(_, _, _, _)
\* lines 179-188: for record in reversed(completed_executions), from
\* position i down; lines 191-196 if none is of pipeline_id
LatestRecordOf(recs, completed, i, pipeline_id) ==
  IF i = 0
  THEN [ status |-> "unknown", execution_id |-> <<"uuid">>, task_id |-> <<>>,
         pipeline_id |-> <<pipeline_id>> ]
  ELSE IF recs[completed[i]].pipeline_id = pipeline_id
       THEN [ status |-> recs[completed[i]].status,
              execution_id |-> <<completed[i]>>, task_id |-> <<>>,
              pipeline_id |-> <<pipeline_id>> ]
       ELSE LatestRecordOf(recs, completed, i - 1, pipeline_id)

\* ---- Scheduler.run_once -------------------------------------------------
run_once_begin ==
  /\ pc = "idle"
  /\ force' = FALSE
  /\ tick_now' = now
  /\ tick_items' = schedules
  /\ fired' = <<>>
  /\ deferred' = <<>>
  /\ pc' = "loop"
  /\ UNCHANGED <<now, objs, schedules, files, execVars,
                 orchVars, result, calls, runVars>>

\* the command "scheduler run-once --force": every enabled schedule gets a
\* next_run one minute in the past, then run_once is called
scheduler_run_once_force ==
  /\ pc = "idle"
  /\ calls < MaxCalls
  /\ calls' = calls + 1
  /\ schedules # <<>>
  /\ objs' = [sid \in DOMAIN objs |->
               IF sid \in Range(schedules) /\ objs[sid].enabled
               THEN [objs[sid] EXCEPT !.next_run = now - 1]
               ELSE objs[sid]]
  /\ force' = TRUE
  /\ tick_now' = now
  /\ tick_items' = schedules
  /\ fired' = <<>>
  /\ deferred' = <<>>
  /\ pc' = "loop"
  /\ UNCHANGED <<now, schedules, files, execVars, orchVars, result,
                 runVars>>

\* a tick that forgets the enabled flag
IsDueNoEnabled(s, t) == s.next_run <= t

\* lines 311 and 317: the schedule is enabled and its time has come
IsDue(s, t) == s.enabled /\ s.next_run <= t

InLoop == pc = "loop" /\ tick_items # <<>>

\* lines 311-317: a disabled schedule, or one whose time has not come
RunOnceSkip ==
  /\ InLoop
  /\ ~IsDue(objs[Head(tick_items)], tick_now)
  /\ tick_items' = Tail(tick_items)
  /\ UNCHANGED <<now, objs, schedules, files, execVars,
                 orchVars, result, calls, pc, force, tick_now, fired, deferred,
                 runVars>>

\* a tick that advances next_run of a schedule it defers
RunOnceDeferAdvancing ==
  /\ InLoop
  /\ IsDue(objs[Head(tick_items)], tick_now)
  /\ ~_check_dependencies(objs[Head(tick_items)])
  /\ tick_items' = Tail(tick_items)
  /\ deferred' = Append(deferred, Head(tick_items))
  /\ objs' = [objs EXCEPT ![Head(tick_items)] = update_next_run(@, now)]
  /\ files' = _save_schedules(schedules, objs', files)
  /\ UNCHANGED <<now, schedules, execVars, orchVars, result, calls, pc,
                 force, tick_now, fired, runVars>>

\* lines 338-339: due, but the dependency gate is closed
RunOnceDefer ==
  /\ InLoop
  /\ IsDue(objs[Head(tick_items)], tick_now)
  /\ ~_check_dependencies(objs[Head(tick_items)])
  /\ tick_items' = Tail(tick_items)
  /\ deferred' = Append(deferred, Head(tick_items))
  /\ UNCHANGED <<now, objs, schedules, files, execVars,
                 orchVars, result, calls, pc, force, tick_now, fired, runVars>>

\* lines 324-327: due and the gate is open: _run_pipeline is entered
RunOnceFire ==
  /\ InLoop
  /\ IsDue(objs[Head(tick_items)], tick_now)
  /\ _check_dependencies(objs[Head(tick_items)])
  /\ RunBegin(Head(tick_items), "run_once")
  /\ tick_items' = Tail(tick_items)
  /\ fired' = Append(fired, Head(tick_items))
  /\ UNCHANGED <<now, objs, schedules, files, completed_executions,
                 db_executions, orchVars, result, calls, callback_calls,
                 force, tick_now, deferred>>

\* lines 333-337, after _run_pipeline has returned: update_next_run and
\* _save_schedules; on a cron expression croniter rejects update_next_run
\* raises and the except of line 340 goes on to the next schedule
Advance(sid) ==
  IF is_valid(objs[sid].cron_expression)
  THEN /\ objs' = [objs EXCEPT ![sid] = update_next_run(@, now)]
       /\ files' = _save_schedules(schedules, objs', files)
  ELSE UNCHANGED <<objs, files>>

\* a tick that an exception of update_next_run takes out of its loop
RunReturnAborting ==
  /\ pc = "run_returned"
  /\ IF caller = "run_once"
     THEN /\ Advance(run_sched)
          /\ pc' = "loop"
          /\ tick_items' = IF is_valid(objs[run_sched].cron_expression)
                           THEN tick_items ELSE <<>>
     ELSE /\ UNCHANGED <<objs, files, tick_items>>
          /\ pc' = "idle"
  /\ result' = IF caller = "direct"
               THEN LatestRecordOf(records, completed_executions,
                                   Len(completed_executions), run_sched)
               ELSE result
  /\ caller' = "none"
  /\ run_sched' = "none"
  /\ run_rec' = 0
  /\ run_success' = FALSE
  /\ UNCHANGED <<now, schedules, execVars, orchVars, calls, force, tick_now,
                 fired, deferred, runs>>

\* _run_pipeline returns, to run_once or to its direct caller
RunReturn ==
  /\ pc = "run_returned"
  /\ IF caller = "run_once"
     THEN /\ Advance(run_sched)
          /\ pc' = "loop"
     ELSE /\ UNCHANGED <<objs, files>>
          /\ pc' = "idle"
  \* Orchestrator.run_pipeline returns what it finds in the history
  /\ result' = IF caller = "direct"
               THEN LatestRecordOf(records, completed_executions,
                                   Len(completed_executions), run_sched)
               ELSE result
  \* the frame of _run_pipeline is gone
  /\ caller' = "none"
  /\ run_sched' = "none"
  /\ run_rec' = 0
  /\ run_success' = FALSE
  /\ UNCHANGED <<now, schedules, execVars, orchVars, calls, tickVars, runs>>

\* lines 344-346: the loop is over
run_once_end ==
  /\ pc = "loop"
  /\ tick_items = <<>>
  /\ pc' = "idle"
  \* the frame of run_once is gone
  /\ force' = FALSE
  /\ tick_now' = 0
  /\ fired' = <<>>
  /\ deferred' = <<>>
  /\ UNCHANGED <<now, objs, schedules, files, execVars,
                 orchVars, result, calls, tick_items, runVars>>

\* ---- Orchestrator.run_pipeline ------------------------------------------
\* what task_manager.run_pipeline is called with
Task(pipeline_config, queue) == [pipeline_config |-> pipeline_config, queue |-> queue]

\* the dictionary returned after a submission: the task id is the position
\* of the task in the queue, the execution id a fresh uuid
Submitted(pipeline_id, task_id) ==
  [ status |-> "submitted", execution_id |-> <<"uuid">>,
    task_id |-> <<task_id>>, pipeline_id |-> <<pipeline_id>> ]

\* an unknown id answered with a dictionary instead of an exception
RaisedAsUnknown(pipeline_id) ==
  [ status |-> "unknown", execution_id |-> <<>>, task_id |-> <<>>,
    pipeline_id |-> <<pipeline_id>> ]

\* OrchestratorError reaches the caller
Raised(pipeline_id) ==
  [ status |-> "OrchestratorError", execution_id |-> <<>>, task_id |-> <<>>,
    pipeline_id |-> <<pipeline_id>> ]

\* a run_pipeline that submits whenever there is a task queue
run_pipeline_ignoring_async(pipeline_id, async_execution) ==
  /\ pc = "idle"
  /\ calls < MaxCalls
  /\ calls' = calls + 1
  /\ IF pipeline_id \notin Range(schedules)
     THEN /\ result' = Raised(pipeline_id)
          /\ UNCHANGED <<tasks, records, running_executions, pc, runVars>>
     ELSE IF use_celery
          THEN /\ tasks' = Append(tasks,
                              Task(objs[pipeline_id].pipeline_config, "default"))
               /\ result' = Submitted(pipeline_id, Len(tasks) + 1)
               /\ UNCHANGED <<records, running_executions, pc, runVars>>
          ELSE /\ RunBegin(pipeline_id, "direct")
               /\ UNCHANGED <<tasks, result>>
  /\ UNCHANGED <<now, objs, schedules, files, completed_executions,
                 db_executions, on_execution_complete, use_celery,
                 scheduler_running, scheduler_thread, threads, callback_calls,
                 tickVars>>

\* Orchestrator.run_pipeline(pipeline_id, async_execution=...), up to the
\* call of Scheduler._run_pipeline where it runs the pipeline in-process
run_pipeline(pipeline_id, async_execution) ==
  /\ pc = "idle"
  /\ calls < MaxCalls
  /\ calls' = calls + 1
  /\ IF pipeline_id \notin Range(schedules)
     THEN /\ result' = Raised(pipeline_id)
          /\ UNCHANGED <<tasks, records, running_executions, pc, runVars>>
     ELSE IF use_celery /\ async_execution
          THEN /\ tasks' = Append(tasks,
                              Task(objs[pipeline_id].pipeline_config, "default"))
               /\ result' = Submitted(pipeline_id, Len(tasks) + 1)
               /\ UNCHANGED <<records, running_executions, pc, runVars>>
          ELSE /\ RunBegin(pipeline_id, "direct")
               /\ UNCHANGED <<tasks, result>>
  /\ UNCHANGED <<now, objs, schedules, files, completed_executions,
                 db_executions, on_execution_complete, use_celery,
                 scheduler_running, scheduler_thread, threads, callback_calls,
                 tickVars>>

\* ---- the specification --------------------------------------------------
\* the schedules given to add_schedule: a plain one, one that depends on the
\* first schedule by its schedule id (examples/scheduler_example.py), and one
\* of the web face that depends on a pipeline id
AddInputs ==
  { <<PathConfig, EveryMinute, TRUE, <<>>, DefaultMaxRetries>>,
    <<PathConfig, EveryMinute, TRUE, <<"s1">>, DefaultMaxRetries>>,
    <<IdConfig, EveryTwoMinutes, TRUE, <<"p1">>, DefaultMaxRetries>> }

AddStep ==
  \E id \in SchedIds, a \in AddInputs :
    add_schedule(id, a[1], a[2], a[3], a[4], a[5])

\* the caller of the scheduler is between two operations
Idle == pc = "idle"

RemoveStep == Idle /\ \E id \in SchedIds : remove_schedule(id)

UpdateStep ==
  Idle /\ \E id \in SchedIds, kwargs \in UpdateArgs : update_schedule(id, kwargs)

AddDependencyStep ==
  Idle /\ \E id \in SchedIds, dep \in SchedIds : add_pipeline_dependency(id, dep)

RemoveDependencyStep ==
  Idle /\ \E id \in SchedIds, dep \in SchedIds \cup PipelineIds :
            remove_pipeline_dependency(id, dep)

DirectStep ==
  \E id \in SchedIds \cup {Nonexistent}, async_execution \in BOOLEAN :
    run_pipeline(id, async_execution)

ExecuteStep == \E outcome \in {"ok", "error", "not_found"} : RunExecute(outcome)

\* the web database is importable and its commit succeeds
SaveRecordStep == RunSaveRecord(TRUE)

CallbackStep == \E raises \in BOOLEAN : RunCallback(raises)

Next ==
  \/ ClockTick
  \/ AddStep
  \/ RemoveStep
  \/ UpdateStep
  \/ AddDependencyStep
  \/ RemoveDependencyStep
  \/ scheduler_run_once_force
  \/ run_once_begin
  \/ RunOnceSkip
  \/ RunOnceDefer
  \/ RunOnceFire
  \/ run_once_end
  \/ DirectStep
  \/ ExecuteStep
  \/ RunEndLog
  \/ SaveRecordStep
  \/ CallbackStep
  \/ RunBookkeep
  \/ RunReturn

Spec == Init /\ [][Next]_vars

\* ---- the Orchestrator with or without a task queue ----------------------
\* Orchestrator(use_celery=...) on an empty history directory
CeleryInit ==
  /\ now = 0
  /\ objs = EmptyMap
  /\ schedules = <<>>
  /\ files = EmptyMap
  /\ records = <<>>
  /\ completed_executions = <<>>
  /\ running_executions = {}
  /\ db_executions = EmptyMap
  /\ on_execution_complete = TRUE
  /\ callback_calls = <<>>
  /\ pc = "idle"
  /\ force = FALSE
  /\ tick_now = 0
  /\ tick_items = <<>>
  /\ fired = <<>>
  /\ deferred = <<>>
  /\ caller = "none"
  /\ run_sched = "none"
  /\ run_rec = 0
  /\ run_success = FALSE
  /\ runs = 0
  /\ calls = 0
  /\ use_celery \in BOOLEAN
  /\ tasks = <<>>
  /\ scheduler_running = FALSE
  /\ scheduler_thread = <<>>
  /\ threads = [w \in Threads |-> "none"]
  /\ result = NoResult

CelerySpec == CeleryInit /\ [][Next]_vars

\* ---- the Orchestrator with its scheduler thread --------------------------
\* the variables start_scheduler, stop_scheduler and scheduler_loop leave alone
schedulerVars ==
  <<now, objs, schedules, files, execVars, on_execution_complete, use_celery,
    tasks, result, runVars>>

\* Orchestrator.start_scheduler; a call while the scheduler runs returns at
\* line 256
start_scheduler(no_immediate_run) ==
  /\ IF scheduler_running
     THEN /\ calls < MaxCalls
          /\ calls' = calls + 1
          /\ UNCHANGED <<scheduler_running, scheduler_thread, threads>>
     ELSE /\ \E w \in Threads :
               /\ threads[w] = "none"
               /\ \A v \in Threads : v < w => threads[v] # "none"
               /\ threads' = [threads EXCEPT ![w] =
                                IF no_immediate_run THEN "first" ELSE "loop"]
               /\ scheduler_thread' = <<w>>
          /\ scheduler_running' = TRUE
          /\ UNCHANGED calls
  /\ UNCHANGED <<schedulerVars, pc, tickVars>>

\* the thread is at the test of its while loop: it ends before the timeout
\* of join; a thread that sleeps or is in run_once may outlast the timeout
JoinsInTime(w) == threads[w] \in {"first", "loop"}

\* Orchestrator.stop_scheduler; a call while no scheduler runs returns at
\* line 308
stop_scheduler ==
  /\ IF ~scheduler_running
     THEN /\ calls < MaxCalls
          /\ calls' = calls + 1
          /\ UNCHANGED <<scheduler_running, threads>>
     ELSE /\ scheduler_running' = FALSE
          /\ threads' = [w \in Threads |->
                           IF <<w>> = scheduler_thread /\ JoinsInTime(w)
                           THEN "exited" ELSE threads[w]]
          /\ UNCHANGED calls
  /\ UNCHANGED <<schedulerVars, scheduler_thread, pc, tickVars>>

\* scheduler_loop, line 268: the while loop ends
WorkerExit(w) ==
  /\ threads[w] \in {"first", "loop"}
  /\ ~scheduler_running
  /\ threads' = [threads EXCEPT ![w] = "exited"]
  /\ UNCHANGED <<schedulerVars, scheduler_running, scheduler_thread, calls, pc,
                 tickVars>>

\* scheduler_loop, lines 271-275: no_immediate_run, the first iteration sleeps
WorkerFirstSleep(w) ==
  /\ threads[w] = "first"
  /\ scheduler_running
  /\ threads' = [threads EXCEPT ![w] = "sleep"]
  /\ UNCHANGED <<schedulerVars, scheduler_running, scheduler_thread, calls, pc,
                 tickVars>>

\* scheduler_loop, line 278: the thread enters Scheduler.run_once
WorkerRunOnce(w) ==
  /\ threads[w] = "loop"
  /\ scheduler_running
  /\ pc = "idle"
  /\ threads' = [threads EXCEPT ![w] = "run_once"]
  /\ force' = FALSE
  /\ tick_now' = now
  /\ tick_items' = schedules
  /\ fired' = <<>>
  /\ deferred' = <<>>
  /\ pc' = "loop"
  /\ UNCHANGED <<schedulerVars, scheduler_running, scheduler_thread, calls>>

\* scheduler_loop, lines 281-284: run_once has returned, the thread sleeps
WorkerSleep(w) ==
  /\ threads[w] = "run_once"
  /\ pc = "idle"
  /\ threads' = [threads EXCEPT ![w] = "sleep"]
  /\ UNCHANGED <<schedulerVars, scheduler_running, scheduler_thread, calls, pc,
                 tickVars>>

\* time.sleep(interval) is over: back to the test of the while loop
WorkerWake(w) ==
  /\ threads[w] = "sleep"
  /\ threads' = [threads EXCEPT ![w] = "loop"]
  /\ UNCHANGED <<schedulerVars, scheduler_running, scheduler_thread, calls, pc,
                 tickVars>>

StartStep == \E no_immediate_run \in BOOLEAN : start_scheduler(no_immediate_run)

WorkerExitStep == \E w \in Threads : WorkerExit(w)

WorkerFirstSleepStep == \E w \in Threads : WorkerFirstSleep(w)

WorkerRunOnceStep == \E w \in Threads : WorkerRunOnce(w)

WorkerSleepStep == \E w \in Threads : WorkerSleep(w)

WorkerWakeStep == \E w \in Threads : WorkerWake(w)

\* the thread of the scheduler is inside run_once or _run_pipeline
InTick == pc # "idle" /\ \E w \in Threads : threads[w] = "run_once"

\* remove_schedule and update_schedule called by the main thread while the
\* scheduler thread is inside run_once: no lock is taken
ThreadedRemoveStep == InTick /\ \E id \in SchedIds : remove_schedule(id)

ThreadedUpdateStep ==
  InTick /\ \E id \in SchedIds, kwargs \in UpdateArgs : update_schedule(id, kwargs)

ThreadedNext ==
  \/ ClockTick
  \/ AddStep
  \/ RemoveStep
  \/ UpdateStep
  \/ ThreadedRemoveStep
  \/ ThreadedUpdateStep
  \/ StartStep
  \/ stop_scheduler
  \/ WorkerExitStep
  \/ WorkerFirstSleepStep
  \/ WorkerRunOnceStep
  \/ WorkerSleepStep
  \/ WorkerWakeStep
  \/ RunOnceSkip
  \/ RunOnceDefer
  \/ RunOnceFire
  \/ run_once_end
  \/ ExecuteStep
  \/ RunEndLog
  \/ SaveRecordStep
  \/ CallbackStep
  \/ RunBookkeep
  \/ RunReturn

ThreadedSpec == CeleryInit /\ [][ThreadedNext]_vars

\* ---- a Scheduler constructed on a schedule directory ---------------------
\* the schedules an earlier process stored: constructed at instant -1
Configs == {PathConfig, IdConfig, PathObject, ConfigObject}

StoredSchedules ==
  { ScheduleConfig(id, cfg, EveryMinute, TRUE, <<>>, DefaultMaxRetries, -1) :
      id \in SchedIds, cfg \in Configs }

\* an item of schedules.json: a schedule as to_dict gives it, or one whose
\* cron expression was damaged
StoredItems ==
  {to_dict(s) : s \in StoredSchedules}
  \cup {[to_dict(s) EXCEPT !.cron_expression = BadCron] : s \in StoredSchedules}

\* the files schedules.json can be: not JSON at all, or an object of at most
\* MaxStored items with distinct keys
Stores ==
  {StoreFile(FALSE, <<>>)}
  \cup {StoreFile(TRUE, items) :
          items \in {q \in UNION {[1..n -> StoredItems] : n \in 0..MaxStored} :
                       \A i, j \in DOMAIN q : q[i].id = q[j].id => i = j}}

\* the schedule directory before Scheduler.__init__: with or without a
\* schedules.json; the history directory is empty
LoadInit ==
  /\ now = 0
  /\ objs = EmptyMap
  /\ schedules = <<>>
  /\ files \in {EmptyMap} \cup {(SchedulesJson :> store) : store \in Stores}
  /\ records = <<>>
  /\ completed_executions = <<>>
  /\ running_executions = {}
  /\ db_executions = EmptyMap
  /\ on_execution_complete = TRUE
  /\ callback_calls = <<>>
  /\ pc = "new"
  /\ force = FALSE
  /\ tick_now = 0
  /\ tick_items = <<>>
  /\ fired = <<>>
  /\ deferred = <<>>
  /\ caller = "none"
  /\ run_sched = "none"
  /\ run_rec = 0
  /\ run_success = FALSE
  /\ runs = 0
  /\ calls = 0
  /\ use_celery = FALSE
  /\ tasks = <<>>
  /\ scheduler_running = FALSE
  /\ scheduler_thread = <<>>
  /\ threads = [w \in Threads |-> "none"]
  /\ result = NoResult

\* Scheduler.__init__: the maps are created empty, then _load_schedules
Scheduler_init ==
  /\ pc = "new"
  /\ schedules' = [k \in DOMAIN LoadedList(files, now) |->
                     LoadedList(files, now)[k].id]
  /\ objs' = _load_schedules(files, now)
  /\ pc' = "idle"
  /\ UNCHANGED <<now, files, execVars, orchVars, result, calls, tickVars,
                 runVars>>

LoadNext ==
  \/ Scheduler_init
  \/ ClockTick
  \/ RemoveStep
  \/ UpdateStep

LoadSpec == LoadInit /\ [][LoadNext]_vars

\* ---- get_orchestrator: reconciliation with the web database -------------
\* the ids of the schedules of the web database
WebIds == {"w1", "w2"}

\* a row of the table of schedules of the web database
WebSchedule(id, pipeline_id, cron_expression, enabled) ==
  [ id |-> id, pipeline_id |-> pipeline_id,
    cron_expression |-> cron_expression, enabled |-> enabled ]

\* db.query(WebSchedule).all(), in the order of the rows of the table: no
\* row; one row; two rows, the later id first; a disabled row; a row whose
\* cron expression croniter rejects
Catalogs ==
  { <<>>,
    <<WebSchedule("w1", "p2", EveryMinute, TRUE)>>,
    <<WebSchedule("w2", "p2", EveryMinute, TRUE),
      WebSchedule("w1", "p2", EveryMinute, TRUE)>>,
    <<WebSchedule("w1", "p2", EveryMinute, FALSE),
      WebSchedule("w2", "p2", EveryMinute, TRUE)>>,
    <<WebSchedule("w2", "p2", EveryMinute, TRUE),
      WebSchedule("w1", "p2", BadCron, TRUE)>> }

\* the scheduler as the reconciliation sees it: the map, the objects, the
\* directory, and whether an exception has left the try block
SyncState(order, heap, fs, raised) ==
  [order |-> order, heap |-> heap, fs |-> fs, raised |-> raised]

\* the file schedule_pipeline writes itself, lines 120-142
WebScheduleFile(row, t) ==
  [ id |-> row.id, pipeline_id |-> row.pipeline_id,
    cron_expression |-> row.cron_expression, enabled |-> TRUE,
    next_run |-> isoformat(get_next(row.cron_expression, t)),
    dependencies |-> <<>>, max_retries |-> DefaultMaxRetries,
    retry_delay |-> DefaultRetryDelay ]

\* line 116: croniter(cron_expression, now) raises
schedule_pipeline_raises(row) == ~is_valid(row.cron_expression)

\* schedule_pipeline(schedule_id, pipeline_id, cron_expression) at instant t:
\* the file, then ScheduleConfig with the id of the row, then add_schedule,
\* whose _save_schedules writes the file again
schedule_pipeline(st, row, t) ==
  LET s == ScheduleConfig(row.id, <<"str", row.pipeline_id>>,
                          row.cron_expression, TRUE, <<>>,
                          DefaultMaxRetries, t)
      written == (row.id :> WebScheduleFile(row, t)) @@ st.fs
      heap == (row.id :> s) @@ st.heap
      order == DictSet(st.order, row.id)
  IN SyncState(order, heap, _save_schedules(order, heap, written), FALSE)

\* a test that picks the disabled rows instead of the enabled ones
IsMissingDisabled(web_schedule, local_schedule_ids) ==
  web_schedule.id \notin local_schedule_ids /\ ~web_schedule.enabled

\* lines 61-62
IsMissing(web_schedule, local_schedule_ids) ==
  web_schedule.id \notin local_schedule_ids /\ web_schedule.enabled

RECURSIVE SyncAdd(_, _, _, _, _)
\* lines 60-68: for web_schedule in web_schedules, from position i up; an
\* exception of schedule_pipeline leaves the loop
SyncAdd(web_schedules, i, local_schedule_ids, st, t) ==
  IF i > Len(web_schedules) THEN st
  ELSE IF ~IsMissing(web_schedules[i], local_schedule_ids)
       THEN SyncAdd(web_schedules, i + 1, local_schedule_ids, st, t)
       ELSE IF schedule_pipeline_raises(web_schedules[i])
            THEN [st EXCEPT !.raised = TRUE]
            ELSE SyncAdd(web_schedules, i + 1, local_schedule_ids,
                         schedule_pipeline(st, web_schedules[i], t), t)

\* a test that picks the schedules the web database does have
IsOrphanInverted(local_id, web_schedule_ids) == local_id \in web_schedule_ids

\* line 72
IsOrphan(local_id, web_schedule_ids) == local_id \notin web_schedule_ids

RECURSIVE SyncRemove(_, _, _, _)
\* lines 71-73: for local_schedule in local_schedules, from position i up;
\* remove_schedule deletes the key and calls _save_schedules
SyncRemove(local_schedules, i, web_schedule_ids, st) ==
  IF i > Len(local_schedules) THEN st
  ELSE IF IsOrphan(local_schedules[i], web_schedule_ids)
          /\ local_schedules[i] \in Range(st.order)
       THEN SyncRemove(local_schedules, i + 1, web_schedule_ids,
                       SyncState(DictDel(st.order, local_schedules[i]), st.heap,
                                 _save_schedules(DictDel(st.order, local_schedules[i]),
                                                 st.heap, st.fs),
                                 FALSE))
       ELSE SyncRemove(local_schedules, i + 1, web_schedule_ids, st)

\* the scheduler after sync_schedules_with_web_db at instant t; db_ok: the
\* web database can be imported and queried
SyncResult(order, heap, fs, web_schedules, db_ok, t) ==
  IF ~db_ok THEN SyncState(order, heap, fs, TRUE)
  ELSE LET added == SyncAdd(web_schedules, 1, Range(order),
                            SyncState(order, heap, fs, FALSE), t)
       IN IF added.raised THEN added
          ELSE SyncRemove(order, 1,
                          {web_schedules[k].id : k \in DOMAIN web_schedules},
                          added)

\* what sync_schedules_with_web_db returned: True (line 78) or False (line 83)
SyncReturned(ok) ==
  [ status |-> IF ok THEN "synced" ELSE "sync_failed", execution_id |-> <<>>,
    task_id |-> <<>>, pipeline_id |-> <<>> ]

sync_schedules_with_web_db(web_schedules, db_ok) ==
  /\ pc = "idle"
  /\ LET r == SyncResult(schedules, objs, files, web_schedules, db_ok, now) IN
       /\ schedules' = r.order
       /\ objs' = r.heap
       /\ files' = r.fs
       /\ result' = SyncReturned(~r.raised)
  /\ UNCHANGED <<now, execVars, orchVars, calls, pc, tickVars, runVars>>

SyncStep ==
  \E web_schedules \in Catalogs, db_ok \in BOOLEAN :
    sync_schedules_with_web_db(web_schedules, db_ok)

\* get_orchestrator(): Orchestrator(use_celery=False)
SyncInit == CeleryInit /\ use_celery = FALSE

\* the schedules are added and reconciled
SyncNext ==
  \/ SyncStep
  \/ ClockTick
  \/ AddStep

SyncSpec == SyncInit /\ [][SyncNext]_vars

\* update_schedule of a schedule of the web database
WebUpdateStep ==
  Idle /\ \E id \in WebIds, kwargs \in UpdateArgs : update_schedule(id, kwargs)

\* the scheduler of the web face: its schedules come from the web database
WebNext ==
  \/ SyncStep
  \/ ClockTick
  \/ WebUpdateStep
  \/ run_once_begin
  \/ RunOnceSkip
  \/ RunOnceDefer
  \/ RunOnceFire
  \/ run_once_end
  \/ ExecuteStep
  \/ RunEndLog
  \/ SaveRecordStep
  \/ CallbackStep
  \/ RunBookkeep
  \/ RunReturn

WebSpec == SyncInit /\ [][WebNext]_vars

\* ---- the schedule directory cannot be written ----------------------------
\* _save_schedules where open() raises OSError at the file of the k-th
\* schedule of the map: the files of the schedules before it are written
_save_schedules_raising(order, heap, fs, k) ==
  _save_schedules(SubSeq(order, 1, k - 1), heap, fs)

\* the OSError of _save_schedules reaches the caller of the mutation
RaisedOSError ==
  [ status |-> "OSError", execution_id |-> <<>>, task_id |-> <<>>,
    pipeline_id |-> <<>> ]

\* Scheduler.add_schedule, lines 238-241, where _save_schedules raises
add_schedule_oserror(id, cfg, cron, enabled, deps, max_retries, k) ==
  /\ pc = "idle"
  /\ id \notin DOMAIN objs
  /\ \A other \in SchedIds : IdBefore(other, id) => other \in DOMAIN objs
  /\ is_valid(cron)
  /\ \A j \in 1..Len(deps) : deps[j] \in SchedIds => deps[j] \in DOMAIN objs
  /\ objs' = objs @@ (id :> ScheduleConfig(id, cfg, cron, enabled, deps,
                                           max_retries, now))
  /\ schedules' = DictSet(schedules, id)
  /\ k \in 1..Len(schedules')
  /\ files' = _save_schedules_raising(schedules', objs', files, k)
  /\ result' = RaisedOSError
  /\ UNCHANGED <<now, execVars, orchVars, calls, pc, tickVars, runVars>>

\* Scheduler.remove_schedule, lines 254-259, where _save_schedules raises
remove_schedule_oserror(id, k) ==
  /\ calls < MaxCalls
  /\ calls' = calls + 1
  /\ id \in Range(schedules)
  /\ schedules' = DictDel(schedules, id)
  /\ k \in 1..Len(schedules')
  /\ files' = _save_schedules_raising(schedules', objs, files, k)
  /\ result' = RaisedOSError
  /\ UNCHANGED <<now, objs, execVars, orchVars, pc, tickVars, runVars>>

\* Scheduler.update_schedule, lines 283-295, where _save_schedules raises
update_schedule_oserror(id, kwargs, k) ==
  /\ calls < MaxCalls
  /\ calls' = calls + 1
  /\ id \in Range(schedules)
  /\ kwargs.cron_expression # <<>> => is_valid(kwargs.cron_expression[1])
  /\ objs' = [objs EXCEPT ![id] =
                IF kwargs.cron_expression = <<>> THEN SetAttrs(@, kwargs)
                ELSE update_next_run(SetAttrs(@, kwargs), now)]
  /\ k \in 1..Len(schedules)
  /\ files' = _save_schedules_raising(schedules, objs', files, k)
  /\ result' = RaisedOSError
  /\ UNCHANGED <<now, schedules, execVars, orchVars, pc, tickVars, runVars>>

AddFailsStep ==
  \E id \in SchedIds, a \in AddInputs, k \in 1..Cardinality(SchedIds) :
    add_schedule_oserror(id, a[1], a[2], a[3], a[4], a[5], k)

RemoveFailsStep ==
  Idle /\ \E id \in SchedIds, k \in 1..Cardinality(SchedIds) :
            remove_schedule_oserror(id, k)

UpdateFailsStep ==
  Idle /\ \E id \in SchedIds, kwargs \in UpdateArgs,
             k \in 1..Cardinality(SchedIds) :
            update_schedule_oserror(id, kwargs, k)

\* the mutations of the schedule map, on a directory that can fail
StorageNext ==
  \/ ClockTick
  \/ AddStep
  \/ RemoveStep
  \/ UpdateStep
  \/ AddFailsStep
  \/ RemoveFailsStep
  \/ UpdateFailsStep

StorageSpec == SyncInit /\ [][StorageNext]_vars

\* ---- the Orchestrator asked for the dependencies of its schedules --------
\* what add_pipeline_dependency or remove_pipeline_dependency returned
Returned(value) ==
  [ status |-> IF value THEN "True" ELSE "False", execution_id |-> <<>>,
    task_id |-> <<>>, pipeline_id |-> <<>> ]

\* Orchestrator.add_pipeline_dependency where it returns False before the
\* update: no such schedule (line 434), no such dependency (line 440), or
\* the dependency is listed already (line 445)
add_pipeline_dependency_refused(schedule_id, dependency_id) ==
  /\ IF schedule_id \notin Range(schedules) THEN TRUE
     ELSE IF dependency_id \notin Range(schedules) THEN TRUE
          ELSE dependency_id \in Range(objs[schedule_id].dependencies)
  /\ result' = Returned(FALSE)
  /\ UNCHANGED <<now, objs, schedules, files, execVars, orchVars, calls, pc,
                 tickVars, runVars>>

\* Orchestrator.remove_pipeline_dependency where it returns False before the
\* update: no such schedule (line 469), or the dependency is not listed
\* (line 474)
remove_pipeline_dependency_refused(schedule_id, dependency_id) ==
  /\ IF schedule_id \notin Range(schedules) THEN TRUE
     ELSE dependency_id \notin Range(objs[schedule_id].dependencies)
  /\ result' = Returned(FALSE)
  /\ UNCHANGED <<now, objs, schedules, files, execVars, orchVars, calls, pc,
                 tickVars, runVars>>

\* the ids the callers of the two operations name
DependencyIds == SchedIds \cup PipelineIds

AddDependencyRefusedStep ==
  Idle /\ \E id \in SchedIds, dep \in DependencyIds :
            add_pipeline_dependency_refused(id, dep)

RemoveDependencyRefusedStep ==
  Idle /\ \E id \in SchedIds, dep \in DependencyIds :
            remove_pipeline_dependency_refused(id, dep)

\* the schedules of AddInputs, and one with two dependencies
DependencyAddInputs ==
  AddInputs
  \cup { <<IdConfig, EveryTwoMinutes, TRUE, <<"p1", "p2">>, DefaultMaxRetries>> }

DependencyAddStep ==
  \E id \in SchedIds, a \in DependencyAddInputs :
    add_schedule(id, a[1], a[2], a[3], a[4], a[5])

DependencyNext ==
  \/ ClockTick
  \/ DependencyAddStep
  \/ AddDependencyStep
  \/ RemoveDependencyStep
  \/ AddDependencyRefusedStep
  \/ RemoveDependencyRefusedStep

DependencySpec == SyncInit /\ [][DependencyNext]_vars

\* ---- Orchestrator.get_pipeline_status -------------------------------------
\* the dictionary get_pipeline_status(execution_id=...) returns: the record
\* of that id in completed_executions (lines 217-226), else the one in
\* running_executions with status RUNNING (lines 229-236), else "unknown"
Status(execution_id) ==
  IF execution_id \in Range(completed_executions)
  THEN [ status |-> records[execution_id].status,
         execution_id |-> <<execution_id>>, task_id |-> <<>>,
         pipeline_id |-> <<records[execution_id].pipeline_id>> ]
  ELSE IF execution_id \in running_executions
       THEN [ status |-> "RUNNING", execution_id |-> <<execution_id>>,
              task_id |-> <<>>,
              pipeline_id |-> <<records[execution_id].pipeline_id>> ]
       ELSE [ status |-> "unknown", execution_id |-> <<execution_id>>,
              task_id |-> <<>>, pipeline_id |-> <<>> ]

\* a caller asks for the state of an execution, at any moment
get_pipeline_status(execution_id) ==
  /\ result' = Status(execution_id)
  /\ UNCHANGED <<now, objs, schedules, files, execVars, orchVars, calls, pc,
                 tickVars, runVars>>

StatusStep == \E execution_id \in DOMAIN records : get_pipeline_status(execution_id)

StatusNext == Next \/ StatusStep

StatusSpec == SyncInit /\ [][StatusNext]_vars

\* ---- properties ---------------------------------------------------------
\* a step of the loop of run_once that deals with the schedule sid
Processes(sid) ==
  /\ pc = "loop"
  /\ tick_items # <<>>
  /\ Head(tick_items) = sid
  /\ tick_items' = Tail(tick_items)

\* that step fires sid: one more ExecutionRecord, of sid, and sid is
\* dispatched; or it does not: no record is created
FiresIt(sid) ==
  /\ fired' = Append(fired, sid)
  /\ Len(records') = Len(records) + 1
  /\ records'[Len(records')].schedule_id = sid
  /\ records'[Len(records')].status = "RUNNING"
  /\ pc' = "run_exec"

FiresNothing == fired' = fired /\ records' = records /\ pc' = "loop"

\* C1: in a tick taken at instant now a schedule is fired (dispatched, with
\* one new ExecutionRecord) if and only if it is enabled, its next_run <= now
\* and its dependency gate is satisfied; otherwise nothing is fired; and no
\* schedule is fired more than once in one tick.
C1_FiredIffEnabledDueAndGateOpen ==
  [][\A sid \in SchedIds :
       Processes(sid) =>
         /\ sid \notin Range(fired)
         /\ FiresIt(sid) \/ FiresNothing
         /\ FiresIt(sid) <=> ( /\ objs[sid].enabled
                               /\ objs[sid].next_run <= tick_now
                               /\ _check_dependencies(objs[sid]) )]_vars

\* two schedules have been fired by one tick, and a third case of the loop
\* (a schedule that is not fired) is covered by C2_Witness
C1_Witness == Len(fired) = 2 /\ fired[1] # fired[2]

\* C2: a tick that finds an enabled, due schedule behind a closed dependency
\* gate does not fire it, creates no ExecutionRecord, and leaves its next_run
\* as it is in memory and on disk; the schedule stays in the map for the next
\* tick.
C2_DeferredLeavesNextRun ==
  [][\A sid \in SchedIds :
       ( /\ Processes(sid)
         /\ objs[sid].enabled
         /\ objs[sid].next_run <= tick_now
         /\ ~_check_dependencies(objs[sid]) )
       => /\ FiresNothing
          /\ objs'[sid].next_run = objs[sid].next_run
          /\ files' = files
          /\ schedules' = schedules]_vars

\* a tick has deferred a due schedule whose file is on disk
C2_Witness ==
  \E i \in 1..Len(deferred) :
    /\ deferred[i] \in DOMAIN files
    /\ objs[deferred[i]].next_run <= tick_now

\* the tick has gone through all its schedules and is about to return
TickReturns == pc = "loop" /\ tick_items = <<>>

\* C3: when the tick returns, every schedule it fired has its next_run
\* advanced past the instant of the tick, and that next_run is in its file,
\* whatever the run ended in.
C3_FiredIsAdvancedAndSaved ==
  TickReturns =>
    \A i \in 1..Len(fired) :
      /\ objs[fired[i]].next_run > tick_now
      /\ fired[i] \in DOMAIN files
      /\ files[fired[i]].next_run = isoformat(objs[fired[i]].next_run)

\* t is an instant the cron expression matches
Matches(cron, t) == cron \in ValidCrons /\ t % cron = 0

\* C4: when _run_pipeline has returned to the tick and the tick has advanced
\* the schedule, the new next_run is the smallest matching instant after the
\* instant of the computation, hence after the instant of the tick.
C4_NextRunIsNextWindow ==
  [][ (pc = "run_returned" /\ caller = "run_once" /\ pc' = "loop") =>
        /\ objs'[run_sched].next_run > now
        /\ objs'[run_sched].next_run > tick_now
        /\ Matches(objs'[run_sched].cron_expression, objs'[run_sched].next_run)
        /\ \A t \in (now + 1)..(objs'[run_sched].next_run - 1) :
             ~Matches(objs'[run_sched].cron_expression, t) ]_vars

LatestTerminal(d) ==
  LET js == {j \in 1..Len(completed_executions) :
               /\ records[completed_executions[j]].pipeline_id = d
               /\ records[completed_executions[j]].status \in Terminal}
  IN IF js = {} THEN "none"
     ELSE records[completed_executions[CHOOSE j \in js : \A k \in js : k <= j]].status

\* C6: a schedule one of whose dependencies has FAILED as its latest terminal
\* record is not fired, even if an older SUCCESS record exists.
C6_LatestFailedClosesGate ==
  [][\A sid \in SchedIds :
       ( /\ Processes(sid)
         /\ \E i \in 1..Len(objs[sid].dependencies) :
              LatestTerminal(objs[sid].dependencies[i]) = "FAILED" )
       => FiresNothing]_vars

\* the history holds a SUCCESS record of pipeline d
HasSuccess(d) ==
  \E j \in 1..Len(completed_executions) :
    /\ records[completed_executions[j]].pipeline_id = d
    /\ records[completed_executions[j]].status = "SUCCESS"

\* C7: an enabled, due schedule is deferred by the gate exactly when one of
\* its listed dependencies has no SUCCESS record in the history, whatever the
\* other dependencies are; with an empty list it is fired.
C7_GateIsUniversal ==
  [][\A sid \in SchedIds :
       ( /\ Processes(sid)
         /\ objs[sid].enabled
         /\ objs[sid].next_run <= tick_now )
       => /\ (deferred' = Append(deferred, sid) /\ FiresNothing)
               <=> \E i \in 1..Len(objs[sid].dependencies) :
                     ~HasSuccess(objs[sid].dependencies[i])
          /\ objs[sid].dependencies = <<>> => FiresIt(sid)]_vars

\* a tick has deferred a schedule whose first dependency has succeeded and
\* whose second one has no record
C7_Witness ==
  \E i \in 1..Len(deferred) :
    /\ Len(objs[deferred[i]].dependencies) = 2
    /\ HasSuccess(objs[deferred[i]].dependencies[1])
    /\ ~HasSuccess(objs[deferred[i]].dependencies[2])

\* C8: a record in a terminal status has an end_time, not before its
\* start_time.
C8_TerminalHasEndTime ==
  \A i \in 1..Len(records) :
    records[i].status \in Terminal =>
      /\ records[i].end_time # <<>>
      /\ records[i].end_time[1] >= records[i].start_time

\* a run of this process has ended, later than it began
C8_Witness ==
  \E i \in 1..Len(records) :
    /\ records[i].schedule_id \in SchedIds
    /\ records[i].status \in Terminal
    /\ records[i].end_time # <<>>
    /\ records[i].end_time[1] > records[i].start_time

\* C9 as it was claimed: a terminal record never changes again
C9_TerminalIsImmutable ==
  [][\A i \in 1..Len(records) :
       records[i].status \in Terminal => records'[i] = records[i]]_vars

IsPrefix(a, b) == Len(a) <= Len(b) /\ \A k \in 1..Len(a) : a[k] = b[k]

\* C9: once a record is terminal, its status, end_time, error_message and
\* retry_count never change, and its logs are only appended to.
C9_TerminalKeepsStatusLogsGrow ==
  [][\A i \in 1..Len(records) :
       records[i].status \in Terminal =>
         /\ records'[i].status = records[i].status
         /\ records'[i].end_time = records[i].end_time
         /\ records'[i].error_message = records[i].error_message
         /\ records'[i].retry_count = records[i].retry_count
         /\ IsPrefix(records[i].logs, records'[i].logs)]_vars

\* _run_pipeline has appended the completion-time line to a terminal record
C9_Witness ==
  /\ pc = "run_save"
  /\ records[run_rec].status \in Terminal
  /\ records[run_rec].logs[Len(records[run_rec].logs)] = "end_time"

\* C10: when _run_pipeline has returned, its record is in
\* completed_executions with status SUCCESS, or FAILED and an error_message,
\* and the callback has been called exactly once with it.
C10_ReturnedRunIsInHistory ==
  pc = "run_returned" =>
    /\ run_rec \in Range(completed_executions)
    /\ \/ records[run_rec].status = "SUCCESS"
       \/ /\ records[run_rec].status = "FAILED"
          /\ records[run_rec].error_message # <<>>
    /\ Cardinality({k \in 1..Len(callback_calls) : callback_calls[k] = run_rec}) = 1

\* the run of _run_pipeline is over: the caller has the control again
RunIsOver == pc \in {"run_returned", "loop", "idle"}

\* C11: once a run has finished, no record in a terminal status remains in
\* running_executions.
C11_RunningHoldsNoTerminal ==
  RunIsOver =>
    \A i \in running_executions : records[i].status \notin Terminal

\* the step of _run_pipeline in which the pipeline fails
RunFails == pc = "run_exec" /\ pc' = "run_endlog" /\ ~run_success'

\* C12: when a run fails and the record's retry_count is below the
\* schedule's max_retries, the record goes to RETRYING with retry_count one
\* higher and an error_message.
C12_FailureBelowMaxRetries ==
  [][ ( /\ RunFails
        /\ records[run_rec].retry_count < objs[run_sched].max_retries )
      => /\ records'[run_rec].status = "RETRYING"
         /\ records'[run_rec].retry_count = records[run_rec].retry_count + 1
         /\ records'[run_rec].error_message # <<>> ]_vars

\* the records of schedule sid created since instant t
RecordsSince(sid, t) ==
  {k \in 1..Len(records) :
     records[k].schedule_id = sid /\ records[k].start_time >= t}

\* C13: when a tick returns, a schedule it fired none of whose runs of this
\* window succeeded has max_retries + 1 records of this window, the last of
\* them FAILED, each terminal one with retry_count <= max_retries, and its
\* next_run is past the instant of the tick (no call came from outside, so
\* every record of the window comes from this tick).
C13_FailingWindowHasAllAttempts ==
  ( TickReturns /\ calls = 0 ) =>
    \A i \in 1..Len(fired) :
      LET rs == RecordsSince(fired[i], tick_now)
          n == objs[fired[i]].max_retries
      IN (\A k \in rs : records[k].status # "SUCCESS") =>
           /\ Cardinality(rs) = n + 1
           /\ \A k \in rs :
                /\ (\A j \in rs : j <= k) => records[k].status = "FAILED"
                /\ records[k].status \in Terminal => records[k].retry_count <= n
           /\ objs[fired[i]].next_run > tick_now

\* _run_pipeline is at work on a schedule with max_retries = 0
RunWithoutRetries ==
  /\ pc \in {"run_exec", "run_endlog", "run_save", "run_callback",
              "run_bookkeep", "run_returned"}
  /\ objs[run_sched].max_retries = 0

\* C14: with max_retries = 0 a failing run takes its record from RUNNING
\* straight to FAILED with retry_count 0; the record is never RETRYING; and
\* when _run_pipeline returns no record has been created after it.
C14_NoRetriesFailureIsTerminal ==
  /\ [][ (RunFails /\ objs[run_sched].max_retries = 0) =>
           /\ records[run_rec].status = "RUNNING"
           /\ records'[run_rec].status = "FAILED"
           /\ records'[run_rec].retry_count = 0
           /\ Len(records') = Len(records) ]_vars
  /\ [](RunWithoutRetries =>
          /\ records[run_rec].status # "RETRYING"
          /\ run_rec = Len(records))

\* a run of a schedule with max_retries = 0 has failed and has returned
C14_Witness ==
  /\ pc = "run_returned"
  /\ objs[run_sched].max_retries = 0
  /\ records[run_rec].status = "FAILED"
  /\ ~run_success

\* a step in which add_schedule, update_schedule or remove_schedule has
\* succeeded: the map or the directory has changed
MutationDone ==
  /\ pc = "idle" /\ pc' = "idle" /\ now' = now
  /\ schedules' # schedules \/ files' # files

\* the loaded schedule l is the schedule s of the first instance
SameSchedule(l, s) ==
  /\ l.id = s.id
  /\ l.cron_expression = s.cron_expression
  /\ l.enabled = s.enabled
  /\ l.dependencies = s.dependencies
  /\ l.max_retries = s.max_retries
  /\ l.retry_delay = s.retry_delay
  /\ l.next_run = s.next_run

\* C15: after a successful add_schedule, update_schedule or remove_schedule,
\* a Scheduler constructed on the same schedule directory loads the same
\* schedule ids, each with the same cron_expression, enabled, dependencies,
\* max_retries, retry_delay and next_run.
C15_FreshInstanceLoadsTheSame ==
  [][ MutationDone =>
        LET loaded == _load_schedules(files', now')
        IN /\ DOMAIN loaded = Range(schedules')
           /\ \A sid \in Range(schedules') :
                SameSchedule(loaded[sid], objs'[sid]) ]_vars

\* C16: after remove_schedule(X) has returned True, X is not in the map, the
\* file of X is not in the schedule directory, and a Scheduler constructed on
\* that directory loads every other schedule and not X.
C16_RemovedIsGoneFromDisk ==
  [][ \A x \in SchedIds :
        remove_schedule(x) =>
          /\ x \notin Range(schedules')
          /\ x \notin DOMAIN files'
          /\ DOMAIN _load_schedules(files', now') = Range(schedules') ]_vars

\* schedule a of the map lists b among its dependencies
Edge(a, b) == a \in Range(schedules) /\ b \in Range(objs[a].dependencies)

RECURSIVE DependsOn(_, _, _)
\* b is reached from a along at most n edges
DependsOn(a, b, n) ==
  /\ n > 0
  /\ \/ Edge(a, b)
     \/ \E c \in SchedIds : Edge(a, c) /\ DependsOn(c, b, n - 1)

\* C17: no schedule lists its own id in its dependencies, and the graph
\* schedule -> dependency has no cycle.
C17_DependenciesAreAcyclic ==
  \A a \in SchedIds :
    /\ ~Edge(a, a)
    /\ ~DependsOn(a, a, Cardinality(SchedIds))

\* C18: add_pipeline_dependency(A, B) with B already depending on A changes
\* nothing: A's dependencies are as before in memory and on disk.
C18_CyclicDependencyIsRejected ==
  [][ \A a, b \in SchedIds :
        ( /\ a # b
          /\ DependsOn(b, a, Cardinality(SchedIds))
          /\ add_pipeline_dependency(a, b) )
        => UNCHANGED <<objs, files>> ]_vars

\* C19: update_schedule with a cron_expression that does not parse changes
\* nothing: the schedule in memory and its file are as before the call.
C19_InvalidCronUpdateChangesNothing ==
  [][ \A id \in SchedIds :
        update_schedule(id, [NoArgs EXCEPT !.cron_expression = <<BadCron>>])
        => UNCHANGED <<objs, schedules, files>> ]_vars

\* C20: every schedule of the map has a valid cron_expression and a
\* next_run that is get_next(cron_expression, t) for some instant t <= now.
C20_NextRunIsNextAfterPast ==
  \A sid \in Range(schedules) :
    /\ is_valid(objs[sid].cron_expression)
    /\ \E t \in (objs[sid].next_run - EveryTwoMinutes)..now :
         objs[sid].next_run = get_next(objs[sid].cron_expression, t)

\* C21: update_schedule called with the cron_expression the schedule already
\* has leaves its next_run as it is, whatever the time of the call.
C21_SameCronKeepsNextRun ==
  [][ \A id \in SchedIds, c \in ValidCrons :
        ( /\ id \in Range(schedules)
          /\ c = objs[id].cron_expression
          /\ update_schedule(id, [NoArgs EXCEPT !.cron_expression = <<c>>]) )
        => objs'[id].next_run = objs[id].next_run ]_vars

\* C22: Orchestrator.run_pipeline in-process on a known schedule creates the
\* record and enters _run_pipeline whatever the dependency gate says, and no
\* step of that run changes the schedule's next_run.
C22_ManualRunKeepsNextRun ==
  [][ /\ \A id \in SchedIds, a \in BOOLEAN :
           ( /\ id \in Range(schedules)
             /\ ~(use_celery /\ a)
             /\ run_pipeline(id, a) )
           => /\ Len(records') = Len(records) + 1
              /\ records'[Len(records')].schedule_id = id
              /\ pc' = "run_exec"
              /\ objs' = objs
      /\ caller = "direct" =>
           objs'[run_sched].next_run = objs[run_sched].next_run ]_vars

\* a manual run of a due schedule whose gate is closed has gone through
C22_Witness ==
  /\ pc = "run_returned"
  /\ caller = "direct"
  /\ ~_check_dependencies(objs[run_sched])
  /\ objs[run_sched].next_run <= now
  /\ objs[run_sched].last_run_time # <<>>

\* C23: a schedule remove_schedule has taken out of the map is never put
\* back, whatever the scheduler thread is doing meanwhile.
C23_RemovedStaysRemoved ==
  [][ \A x \in DOMAIN objs :
        x \notin Range(schedules) => x \notin Range(schedules') ]_vars

\* thread w is alive: started and not ended
Alive(w) == threads[w] \notin {"none", "exited"}

\* C24: start_scheduler called while the scheduler runs creates no thread,
\* and a thread enters run_once only when no other thread is alive.
C24_OneTickLoopWorker ==
  [][ /\ \A n \in BOOLEAN :
           (scheduler_running /\ start_scheduler(n)) =>
             UNCHANGED <<threads, scheduler_thread, scheduler_running>>
      /\ \A w \in Threads :
           WorkerRunOnce(w) => \A v \in Threads \ {w} : ~Alive(v) ]_vars

\* C25: stop_scheduler leaves scheduler_running false and does not touch
\* the tick or the run in progress; and a thread for which stop_scheduler
\* has been called (scheduler_running is false, or the Orchestrator has
\* another thread by now) enters run_once no more.
C25_StoppedWorkerTicksNoMore ==
  [][ /\ stop_scheduler =>
           /\ ~scheduler_running'
           /\ UNCHANGED <<pc, tickVars, runVars, records>>
      /\ \A w \in Threads :
           WorkerRunOnce(w) => scheduler_running /\ scheduler_thread = <<w>> ]_vars

\* update_next_run has raised for a schedule this tick has fired
RaisedInTick ==
  \E i \in 1..Len(fired) : ~is_valid(objs[fired[i]].cron_expression)

\* C26: when update_next_run raises for a schedule the tick has fired, the
\* tick goes on with the schedules it has not processed yet, and fires every
\* one of them that is enabled, due and whose gate is open.
C26_ExceptionStaysWithItsSchedule ==
  [][ /\ ( /\ pc = "run_returned"
           /\ caller = "run_once"
           /\ ~is_valid(objs[run_sched].cron_expression) )
         => pc' = "loop" /\ tick_items' = tick_items
      /\ \A sid \in SchedIds :
           ( /\ Processes(sid)
             /\ RaisedInTick
             /\ objs[sid].enabled
             /\ objs[sid].next_run <= tick_now
             /\ _check_dependencies(objs[sid]) )
           => FiresIt(sid) ]_vars

\* a tick has fired a second schedule after update_next_run raised for the
\* first one
C26_Witness ==
  /\ Len(fired) = 2
  /\ ~is_valid(objs[fired[1]].cron_expression)
  /\ pc = "run_exec"

\* C27: a failing run leaves its record FAILED with an end_time and an
\* error_message, and _run_pipeline returns to its caller with the record
\* in that state: no exception leaves it.
C27_FailureEndsInTheRecord ==
  /\ [][ RunFails =>
           /\ records'[run_rec].status = "FAILED"
           /\ records'[run_rec].end_time # <<>>
           /\ records'[run_rec].error_message # <<>> ]_vars
  /\ []( (pc = "run_returned" /\ ~run_success) =>
           /\ records[run_rec].status = "FAILED"
           /\ records[run_rec].end_time # <<>>
           /\ records[run_rec].error_message # <<>> )

\* a run fired by a tick has failed because the web database does not know
\* the pipeline, and has returned to the tick
C27_Witness ==
  /\ pc = "run_returned"
  /\ caller = "run_once"
  /\ records[run_rec].status = "FAILED"
  /\ \E k \in 1..Len(records[run_rec].logs) :
       records[run_rec].logs[k] = "db_not_found"

\* C28: while a run is in progress the execution store holds a row for its
\* record.
C28_StoreHoldsTheRunningRecord ==
  pc \in {"run_exec", "run_endlog", "run_save"} =>
    run_rec \in DOMAIN db_executions

C30_UnknownIdRaises ==
  [][ \A id \in SchedIds \cup {Nonexistent}, a \in BOOLEAN :
        (id \notin Range(schedules) /\ run_pipeline(id, a)) =>
          /\ result'.status = "OrchestratorError"
          /\ UNCHANGED <<tasks, records, running_executions,
                         completed_executions, objs, schedules, files, pc>> ]_vars

\* run_pipeline has raised for an unknown id while a schedule exists
C30_Witness ==
  /\ result.status = "OrchestratorError"
  /\ result.pipeline_id = <<Nonexistent>>
  /\ schedules # <<>>

\* the positions of the items of schedules.json that from_dict accepts
ValidItems(store) ==
  {k \in DOMAIN store.items : ~from_dict_raises(store.items[k])}

\* C33: loading the schedule store at startup never raises: a corrupt or
\* unparseable stored schedule is skipped and every other valid stored
\* schedule is still loaded; a wholly unparseable store yields an empty
\* schedule set.
C33_LoadSkipsCorruptOnly ==
  [][Scheduler_init =>
       /\ pc' = "idle"
       /\ SchedulesJson \in DOMAIN files =>
            IF files[SchedulesJson].parses
            THEN Range(schedules') =
                   { files[SchedulesJson].items[k].id :
                       k \in ValidItems(files[SchedulesJson]) }
            ELSE schedules' = <<>>]_vars

\* the fields a stored schedule is compared by
StoredFields ==
  { "id", "pipeline_config", "cron_expression", "enabled", "dependencies",
    "max_retries", "retry_delay", "next_run" }

SameFields(a, b) == \A f \in StoredFields : a[f] = b[f]

\* C34: ScheduleConfig.from_dict(s.to_dict()) yields a schedule equal to s
\* field by field: id, pipeline_config, cron_expression, enabled,
\* dependencies, max_retries, retry_delay and next_run.  Here: whenever the
\* store holds s.to_dict() and the Scheduler loads that item, the schedule
\* it gets from from_dict has the fields of s.
C34_FromDictOfToDictIsTheSame ==
  [][Scheduler_init =>
       \A s \in StoredSchedules :
         ( /\ SchedulesJson \in DOMAIN files
           /\ \E k \in DOMAIN files[SchedulesJson].items :
                files[SchedulesJson].items[k] = to_dict(s)
           /\ s.id \in DOMAIN objs' )
         => SameFields(objs'[s.id], s)]_vars

\* the ids of the rows of a catalog
IdsOf(web_schedules) == {web_schedules[k].id : k \in DOMAIN web_schedules}

\* C31: reconciliation with an external catalog is idempotent: running it
\* twice in a row with the same catalog yields the same local schedule set
\* (ids and fields, in memory and on disk) as running it once.  Here: after
\* every reconciliation, one more with the same catalog, at once or a minute
\* later, would change nothing.
C31_SyncTwiceIsSyncOnce ==
  [][\A web_schedules \in Catalogs, db_ok \in BOOLEAN :
       sync_schedules_with_web_db(web_schedules, db_ok) =>
         \A t \in {now', now' + 1} :
           LET again == SyncResult(schedules', objs', files', web_schedules,
                                   db_ok, t)
           IN /\ again.order = schedules'
              /\ again.heap = objs'
              /\ again.fs = files']_vars

\* a reconciliation has added w1 and removed the local schedule s1
C31_Witness ==
  /\ result.status = "synced"
  /\ "w1" \in Range(schedules)
  /\ "w2" \notin Range(schedules)
  /\ "s1" \in DOMAIN objs
  /\ "s1" \notin Range(schedules)

\* C32: after a reconciliation completes, every enabled catalog entry that
\* was not in the local schedule set has been added under the catalog's id,
\* every local schedule whose id is not in the catalog has been removed, and
\* schedules present in both remain.
C32_SyncAddsMissingRemovesOrphans ==
  [][\A web_schedules \in Catalogs, db_ok \in BOOLEAN :
       ( /\ sync_schedules_with_web_db(web_schedules, db_ok)
         /\ result'.status = "synced" )
       => /\ \A k \in DOMAIN web_schedules :
               ( /\ web_schedules[k].enabled
                 /\ web_schedules[k].id \notin Range(schedules) )
               => /\ web_schedules[k].id \in Range(schedules')
                  /\ objs'[web_schedules[k].id].id = web_schedules[k].id
                  /\ objs'[web_schedules[k].id].cron_expression =
                       web_schedules[k].cron_expression
          /\ \A id \in Range(schedules) :
               IF id \in IdsOf(web_schedules)
               THEN id \in Range(schedules') /\ objs'[id] = objs[id]
               ELSE id \notin Range(schedules')]_vars

\* a reconciliation has added the second schedule of the catalog, kept the
\* first, which an earlier one had added, and removed the local schedule s1
C32_Witness ==
  /\ result.status = "synced"
  /\ schedules = <<"w1", "w2">>
  /\ "s1" \in DOMAIN objs
  /\ objs["w1"].next_run < objs["w2"].next_run

\* a mutation of the schedule map whose _save_schedules raises
StorageFails == AddFailsStep \/ RemoveFailsStep \/ UpdateFailsStep

\* C35: if persisting a schedule mutation fails with a filesystem error, the
\* mutation is reported as failed to the caller and the in-memory schedule
\* map is rolled back so that it matches what is on disk (for example, a
\* failed add leaves the schedule absent from memory).
C35_FailedSaveIsRolledBack ==
  [][StorageFails =>
       /\ result'.status = "OSError"
       /\ schedules' = schedules
       /\ \A id \in Range(schedules) : objs'[id] = objs[id]]_vars

\* how many times the tick has fired the schedule sid
TimesFired(sid) == Cardinality({i \in DOMAIN fired : fired[i] = sid})

\* C36: scheduler run-once --force applied to a set of enabled schedules
\* whose next_run is in the future fires every one of them exactly once in
\* that single tick (one new ExecutionRecord each) and leaves each schedule's
\* next_run recomputed strictly after the force time.  Here: when the tick
\* of the command returns, every enabled schedule has been fired once by it,
\* has a record that began in it, and has its next_run after the force time.
C36_ForceFiresEveryEnabledOnce ==
  [][(run_once_end /\ force) =>
       \A sid \in Range(schedules) :
         objs[sid].enabled =>
           /\ TimesFired(sid) = 1
           /\ \E r \in DOMAIN records :
                /\ records[r].schedule_id = sid
                /\ records[r].start_time >= tick_now
           /\ objs[sid].next_run > tick_now]_vars

\* the ids, in ascending order
IdsAscending == <<"s1", "s2", "w1", "w2">>

IdLess(a, b) ==
  \E i, j \in DOMAIN IdsAscending :
    i < j /\ IdsAscending[i] = a /\ IdsAscending[j] = b

\* C37: within one tick, due schedules are fired in ascending schedule-id
\* order, independent of the order in which they were added or loaded.
C37_FiredInAscendingIdOrder ==
  \A i, j \in DOMAIN fired : i < j => IdLess(fired[i], fired[j])

\* how many times dep is listed among the dependencies of the schedule s
Occurrences(s, dep) ==
  Cardinality({i \in DOMAIN s.dependencies : s.dependencies[i] = dep})

\* a call of add_pipeline_dependency, of remove_pipeline_dependency
AddDependencyCall(id, dep) ==
  add_pipeline_dependency(id, dep) \/ add_pipeline_dependency_refused(id, dep)

RemoveDependencyCall(id, dep) ==
  \/ remove_pipeline_dependency(id, dep)
  \/ remove_pipeline_dependency_refused(id, dep)

C39_StatusIsRunningOnlyInFlight ==
  [][\A execution_id \in DOMAIN records :
       get_pipeline_status(execution_id) =>
         /\ result'.status = "RUNNING" => execution_id = run_rec
         /\ execution_id # run_rec =>
              /\ result'.status \in {"SUCCESS", "FAILED"}
              /\ result'.status = records[execution_id].status]_vars

\* C40: a synchronous Orchestrator.run_pipeline(schedule_id) returns the
\* execution_id and terminal status of the ExecutionRecord created by that
\* very invocation, not those of an earlier run of another schedule or
\* pipeline and not status "unknown".
C40_SyncRunReturnsItsOwnRecord ==
  [][(RunReturn /\ caller = "direct") =>
       /\ result'.status \in Terminal
       /\ result'.status = records[run_rec].status
       /\ result'.execution_id = <<run_rec>>]_vars
====
